---- MODULE Spec2Model ----
(***************************************************************************)
(* Model of studies/tunkki.py: the Champions League report (report_ucl)   *)
(* and the functions it calls.  The JSON files under ../data are the      *)
(* program's input; they are the variables store, events_store and        *)
(* lineups_store, drawn in Init and never changed.  report_ucl is followed *)
(* statement by statement through pc; an uncaught Python exception is     *)
(* recorded in error and ends the run where it was raised.                *)
(*                                                                         *)
(* Encoding of the data.  JSON objects are records with the field names   *)
(* of the source.  Player names and nicknames are strings of which the    *)
(* program uses equality and lexical order (sorted); a name is modelled   *)
(* by its rank in the lexical order of all names, the empty string being  *)
(* the least string.  A season name "YYYY/YYYY" is modelled by its first  *)
(* year, which is what int(name.split("/")[0]) yields and which orders    *)
(* four-digit season names as their strings are ordered.                  *)
(***************************************************************************)
EXTENDS Integers, Sequences, FiniteSets, TLC

VARIABLES store, events_store, lineups_store,
          matches, match_events, idx, winning_teams, out, pc, error

vars == <<store, events_store, lineups_store,
          matches, match_events, idx, winning_teams, out, pc, error>>

(***************************************************************************)
(* Bounds of the input enumeration.                                        *)
(***************************************************************************)
MaxEvents == 3
MaxScore == 1
MaxMatches == 2
NumScorers == 11

(***************************************************************************)
(* Constants of the program.                                               *)
(***************************************************************************)
\* most_common()[:10]
TopN == 10
\* int(season_name.split("/")[0]) >= 2008
FirstSeason == 2008

\* json null in "player_nickname"
NoNickname == -1
\* the string ""
EmptyName == 0

\* Python's None, as returned by get_winning_team
None == [none |-> TRUE]

\* StatsBomb play periods: 1-2 regulation, 3-4 extra time, 5 shootout
Periods == 1..5

Raise(e) == [raised |-> e]
Return(v) == [raised |-> "", value |-> v]

(***************************************************************************)
(* Python built-ins used by the program.                                   *)
(***************************************************************************)

\* sorted(s, key=...) and list.sort(key=...): ascending and stable;
\* keys[i] is the key of s[i]
StableSortBy(s, keys) ==
    LET n == Len(s)
        rank(i) == 1 + Cardinality({j \in 1..n :
                        \/ keys[j] < keys[i]
                        \/ keys[j] = keys[i] /\ j < i})
    IN [p \in 1..n |-> s[CHOOSE i \in 1..n : rank(i) = p]]

\* indices of the first occurrence of each distinct element, ascending
FirstOccurrences(s) ==
    SelectSeq([i \in 1..Len(s) |-> i],
              LAMBDA i : \A j \in 1..(i - 1) : s[j] # s[i])

\* collections.Counter(s): (element, count) in first-encounter order
Counter(s) ==
    LET f == FirstOccurrences(s)
    IN [p \in 1..Len(f) |->
          <<s[f[p]], Cardinality({j \in 1..Len(s) : s[j] = s[f[p]]})>>]

\* Counter.most_common(): sorted(items, key=itemgetter(1), reverse=True),
\* which keeps the original order of items with equal counts
most_common(counter) ==
    StableSortBy(counter, [i \in 1..Len(counter) |-> -counter[i][2]])

\* s[:n]
Take(s, n) == SubSeq(s, 1, IF Len(s) < n THEN Len(s) ELSE n)

\* itertools.chain.from_iterable over a list of lists
RECURSIVE chain(_)
chain(ss) == IF ss = <<>> THEN <<>> ELSE Head(ss) \o chain(Tail(ss))

\* max(s, key=period): the first element with the largest key
max_by_period(s) ==
    s[CHOOSE i \in 1..Len(s) :
        /\ \A j \in 1..Len(s) : s[j].period <= s[i].period
        /\ \A j \in 1..(i - 1) : s[j].period < s[i].period]

(***************************************************************************)
(* The functions of tunkki.py.                                             *)
(***************************************************************************)

get_team_name(team) ==
    IF "home_team_name" \in DOMAIN team THEN team.home_team_name
    ELSE IF "away_team_name" \in DOMAIN team THEN team.away_team_name
    ELSE None

\* a resolver that consults the shootout before the score
get_winning_team_penalties_first(match) ==
    IF match.home_penalty_score > match.away_penalty_score
         THEN match.home_team
    ELSE IF match.home_penalty_score < match.away_penalty_score
         THEN match.away_team
    ELSE IF match.home_score > match.away_score THEN match.home_team
    ELSE IF match.home_score < match.away_score THEN match.away_team
    ELSE None

get_winning_team(match) ==
    IF match.home_score > match.away_score THEN match.home_team
    ELSE IF match.home_score < match.away_score THEN match.away_team
    ELSE IF match.home_penalty_score > match.away_penalty_score
         THEN match.home_team
    ELSE IF match.home_penalty_score < match.away_penalty_score
         THEN match.away_team
    ELSE None

get_goal_events(events) ==
    SelectSeq(events, LAMBDA e : /\ e.period <= 4
                                 /\ e.type.name = "Shot"
                                 /\ e.shot.outcome.name = "Goal")

\* a classifier that takes the last event as the ending one
get_result_type_last(events) ==
    IF events = <<>> THEN Raise("ValueError")
    ELSE LET ending_period == events[Len(events)].period
         IN Return(IF ending_period <= 2 THEN "FULL_TIME"
                   ELSE IF ending_period <= 4 THEN "EXTRA_TIME"
                   ELSE "PENALTY_SHOOTOUT")

\* a classifier with max(..., default=...), which never raises
get_result_type_default(events) ==
    IF events = <<>> THEN Return("FULL_TIME")
    ELSE LET ending_period_event == max_by_period(events)
             ending_period == ending_period_event.period
         IN Return(IF ending_period <= 2 THEN "FULL_TIME"
                   ELSE IF ending_period <= 4 THEN "EXTRA_TIME"
                   ELSE "PENALTY_SHOOTOUT")

get_result_type(events) ==
    IF events = <<>> THEN Raise("ValueError")
    ELSE LET ending_period_event == max_by_period(events)
             ending_period == ending_period_event.period
         IN Return(IF ending_period <= 2 THEN "FULL_TIME"
                   ELSE IF ending_period <= 4 THEN "EXTRA_TIME"
                   ELSE "PENALTY_SHOOTOUT")

populate_penalty_scores(match, events) ==
    LET successful_penalty(e) == /\ e.period = 5
                                 /\ e.type.name = "Shot"
                                 /\ e.shot.outcome.name = "Goal"
        successful_penalties_home ==
            SelectSeq(events, LAMBDA e :
                /\ successful_penalty(e)
                /\ e.team.name = match.home_team.home_team_name)
        successful_penalties_away ==
            SelectSeq(events, LAMBDA e :
                /\ successful_penalty(e)
                /\ ~(e.team.name = match.home_team.home_team_name))
    IN [home_penalty_score |-> Len(successful_penalties_home),
        away_penalty_score |-> Len(successful_penalties_away)] @@ match

\* lineup_by_team_name: the second file entry overwrites the first on one key
has_lineup(lineups, team_name) ==
    lineups[1].team_name = team_name \/ lineups[2].team_name = team_name

lineup_by_team_name(lineups, team_name) ==
    IF lineups[2].team_name = team_name THEN lineups[2].lineup
    ELSE lineups[1].lineup

\* the body of the for loop of populate_player_nicknames, from event k on;
\* the events are changed in place, so what was attached before a raise stays
RECURSIVE nickname_loop(_, _, _)
nickname_loop(lineups, match_event_list, k) ==
    IF k > Len(match_event_list) THEN Return(match_event_list)
    ELSE
      LET e == match_event_list[k]
          team_name == e.team.name
      IN IF ~has_lineup(lineups, team_name)
         THEN [raised |-> "KeyError", value |-> match_event_list]
         ELSE
           LET lineup == lineup_by_team_name(lineups, team_name)
               player == e.player
               found == SelectSeq(lineup,
                                  LAMBDA p : p.player_id = player.id)
           IN IF found = <<>>
              THEN [raised |-> "IndexError", value |-> match_event_list]
              ELSE
                LET player_in_lineup == found[1]
                    nickname == player_in_lineup.player_nickname
                    named == [nickname |-> IF nickname # NoNickname
                                           THEN nickname
                                           ELSE player.name] @@ player
                IN nickname_loop(lineups,
                       [match_event_list EXCEPT ![k] =
                           [player |-> named] @@ e],
                       k + 1)

\* a resolver that leaves out a scorer it cannot find instead of failing
RECURSIVE nickname_loop_skip(_, _, _)
nickname_loop_skip(lineups, match_event_list, k) ==
    IF k > Len(match_event_list) THEN Return(match_event_list)
    ELSE
      LET e == match_event_list[k]
          team_name == e.team.name
      IN IF ~has_lineup(lineups, team_name)
         THEN [raised |-> "KeyError", value |-> match_event_list]
         ELSE
           LET lineup == lineup_by_team_name(lineups, team_name)
               player == e.player
               found == SelectSeq(lineup,
                                  LAMBDA p : p.player_id = player.id)
           IN IF found = <<>>
              THEN nickname_loop_skip(lineups, match_event_list, k + 1)
              ELSE
                LET player_in_lineup == found[1]
                    nickname == player_in_lineup.player_nickname
                    named == [nickname |-> IF nickname # NoNickname
                                           THEN nickname
                                           ELSE player.name] @@ player
                IN nickname_loop_skip(lineups,
                       [match_event_list EXCEPT ![k] =
                           [player |-> named] @@ e],
                       k + 1)

populate_player_nicknames_skip(match_id, match_event_list) ==
    nickname_loop_skip(lineups_store[match_id], match_event_list, 1)

populate_player_nicknames(match_id, match_event_list) ==
    nickname_loop(lineups_store[match_id], match_event_list, 1)

(***************************************************************************)
(* The statements of report_ucl, as functions of the values they read.     *)
(***************************************************************************)

\* the scorers counted in the order of the matches and their events
unsorted(s) == s

\* sorted(list) of the scorers' nicknames
sorted(s) == StableSortBy(s, s)

\* the match list left in file order
keep_file_order(ms) == ms

\* matches.sort(key=season_name)
sort_by_season(ms) ==
    StableSortBy(ms, [i \in 1..Len(ms) |-> ms[i].season.season_name])

\* lines 179-182: the competition filter, the season filter, the sort
select_matches(items) ==
    LET ucl_matches ==
            SelectSeq(items, LAMBDA m :
                m.competition.competition_name = "Champions League")
        filtered ==
            SelectSeq(ucl_matches, LAMBDA m :
                m.season.season_name >= FirstSeason)
    IN sort_by_season(filtered)

\* lines 186-193: number of teams reaching the final, by country
country_report(ms) ==
    LET teams_involved ==
            chain([i \in 1..Len(ms) |-> <<ms[i].home_team, ms[i].away_team>>])
        team_countries ==
            [i \in 1..Len(teams_involved) |-> teams_involved[i].country.name]
        country_counts == Counter(team_countries)
    IN most_common(country_counts)

\* lines 209-223: wins by country and team
wins_report(winners) ==
    IF \E i \in 1..Len(winners) : winners[i] = None
    THEN Raise("AttributeError")       \* get_team_name: None has no .get
    ELSE
      LET names == [i \in 1..Len(winners) |-> get_team_name(winners[i])]
          countries == [i \in 1..Len(winners) |-> winners[i].country.name]
          keys == FirstOccurrences(countries)
          idxs == [i \in 1..Len(winners) |-> i]
          teams_by_country ==
              [p \in 1..Len(keys) |->
                 LET of_country ==
                         SelectSeq(idxs, LAMBDA i :
                             countries[i] = countries[keys[p]])
                 IN <<countries[keys[p]],
                      [q \in 1..Len(of_country) |-> names[of_country[q]]]>>]
          by_wins == StableSortBy(teams_by_country,
                         [p \in 1..Len(keys) |-> -Len(teams_by_country[p][2])])
      IN Return([p \in 1..Len(by_wins) |->
                   [country |-> by_wins[p][1],
                    wins |-> Len(by_wins[p][2]),
                    teams |-> most_common(Counter(by_wins[p][2]))]])

\* lines 226-231: top 10 goal scorers
top_scorers(ms) ==
    LET goal_scorers ==
            sorted(chain([i \in 1..Len(ms) |->
                [k \in 1..Len(ms[i].goals) |->
                    ms[i].goals[k].player.nickname]]))
        goal_counter == Counter(goal_scorers)
    IN Take(most_common(goal_counter), TopN)

Section(title, rows) == [title |-> title, rows |-> rows]

Printed(title) == \E k \in 1..Len(out) : out[k].title = title

RowsOf(title) == out[CHOOSE k \in 1..Len(out) : out[k].title = title].rows

(***************************************************************************)
(* report_ucl, statement by statement.                                     *)
(***************************************************************************)

Inputs == <<store, events_store, lineups_store>>

\* lines 179-194
SelectAndCount ==
    /\ pc = "select" /\ error = ""
    /\ LET ms == select_matches(store)
       IN /\ matches' = ms
          /\ IF ms = <<>>
             THEN /\ error' = "IndexError"     \* matches[0]
                  /\ UNCHANGED <<out, pc>>
             ELSE /\ out' = Append(out, Section("countries",
                                                country_report(ms)))
                  /\ pc' = "load_events"
                  /\ UNCHANGED error
    /\ UNCHANGED <<Inputs, match_events, idx, winning_teams>>

\* line 196
LoadEvents ==
    /\ pc = "load_events" /\ error = ""
    /\ match_events' =
           [id \in {matches[i].match_id : i \in 1..Len(matches)} |->
               events_store[id]]
    /\ idx' = 1
    /\ pc' = "result_type"
    /\ UNCHANGED <<Inputs, matches, winning_teams, out, error>>

\* line 200
ResultType ==
    /\ pc = "result_type" /\ error = ""
    /\ LET m == matches[idx]
           r == get_result_type(match_events[m.match_id])
       IN IF r.raised # ""
          THEN /\ error' = r.raised
               /\ UNCHANGED <<matches, pc>>
          ELSE /\ matches' = [matches EXCEPT ![idx] =
                                 [result_type |-> r.value] @@ m]
               /\ pc' = "goals"
               /\ UNCHANGED error
    /\ UNCHANGED <<Inputs, match_events, idx, winning_teams, out>>

\* line 201
GoalEvents ==
    /\ pc = "goals" /\ error = ""
    /\ LET m == matches[idx]
       IN matches' = [matches EXCEPT ![idx] =
              [goals |-> get_goal_events(match_events[m.match_id])] @@ m]
    /\ pc' = "penalties"
    /\ UNCHANGED <<Inputs, match_events, idx, winning_teams, out, error>>

\* line 202
PenaltyScores ==
    /\ pc = "penalties" /\ error = ""
    /\ LET m == matches[idx]
       IN matches' = [matches EXCEPT ![idx] =
              populate_penalty_scores(m, match_events[m.match_id])]
    /\ pc' = "nicknames"
    /\ UNCHANGED <<Inputs, match_events, idx, winning_teams, out, error>>

\* lines 203-205, and the step of the for loop of line 199
PlayerNicknames ==
    /\ pc = "nicknames" /\ error = ""
    /\ LET m == matches[idx]
           r == populate_player_nicknames(m.match_id, m.goals)
       IN /\ matches' = [matches EXCEPT ![idx] = [goals |-> r.value] @@ m]
          /\ IF r.raised # ""
             THEN /\ error' = r.raised
                  /\ UNCHANGED <<pc, idx>>
             ELSE /\ UNCHANGED error
                  /\ IF idx < Len(matches)
                     THEN idx' = idx + 1 /\ pc' = "result_type"
                     ELSE UNCHANGED idx /\ pc' = "winners"
    /\ UNCHANGED <<Inputs, match_events, winning_teams, out>>

\* line 207
WinningTeams ==
    /\ pc = "winners" /\ error = ""
    /\ winning_teams' = [i \in 1..Len(matches) |-> get_winning_team(matches[i])]
    /\ pc' = "wins"
    /\ UNCHANGED <<Inputs, matches, match_events, idx, out, error>>

\* lines 209-224
WinsByCountry ==
    /\ pc = "wins" /\ error = ""
    /\ LET r == wins_report(winning_teams)
       IN IF r.raised # ""
          THEN /\ error' = r.raised
               /\ UNCHANGED <<out, pc>>
          ELSE /\ out' = Append(out, Section("wins", r.value))
               /\ pc' = "scorers"
               /\ UNCHANGED error
    /\ UNCHANGED <<Inputs, matches, match_events, idx, winning_teams>>

\* lines 226-231
TopScorers ==
    /\ pc = "scorers" /\ error = ""
    /\ out' = Append(out, Section("scorers", top_scorers(matches)))
    /\ pc' = "done"
    /\ UNCHANGED <<Inputs, matches, match_events, idx, winning_teams, error>>

Next ==
    \/ SelectAndCount
    \/ LoadEvents
    \/ ResultType
    \/ GoalEvents
    \/ PenaltyScores
    \/ PlayerNicknames
    \/ WinningTeams
    \/ WinsByCountry
    \/ TopScorers

(***************************************************************************)
(* The input files.  Each family below is a set of well-typed contents of  *)
(* ../data/matches, ../data/events and ../data/lineups; Init draws one.    *)
(***************************************************************************)

Scores == 0..MaxScore

\* sequences over U of length at most n
SeqsUpTo(U, n) == UNION {[1..k -> U] : k \in 0..n}

\* a player's full name and nickname: names are ranks in lexical order
FullName(id) == 2 * id
Nick(id) == 2 * id - 1

HomeTeam(name, country) ==
    [home_team_name |-> name, country |-> [name |-> country]]
AwayTeam(name, country) ==
    [away_team_name |-> name, country |-> [name |-> country]]

Match(id, competition, season, home, away, home_score, away_score) ==
    [match_id |-> id,
     competition |-> [competition_name |-> competition],
     season |-> [season_name |-> season],
     home_team |-> home, away_team |-> away,
     home_score |-> home_score, away_score |-> away_score]

\* an event of the events file; only a Shot has the "shot" object
Event(period, type, outcome, team, id) ==
    LET base == [period |-> period, type |-> [name |-> type],
                 team |-> [name |-> team],
                 player |-> [id |-> id, name |-> FullName(id)]]
    IN IF type = "Shot"
       THEN [shot |-> [outcome |-> [name |-> outcome]]] @@ base
       ELSE base

LineupEntry(id, nickname) ==
    [player_id |-> id, player_nickname |-> nickname,
     player_name |-> FullName(id)]

Lineup(team_name, lineup) == [team_name |-> team_name, lineup |-> lineup]

\* the lineup file of a match: every listed player with a nickname
SquadLineups(home, away, n) ==
    <<Lineup(home, [id \in 1..n |-> LineupEntry(id, Nick(id))]),
      Lineup(away, [id \in 1..n |-> LineupEntry(id, Nick(id))])>>

Final2008(home_score, away_score) ==
    Match(1, "Champions League", 2008, HomeTeam("Real", "Spain"),
          AwayTeam("Milan", "Italy"), home_score, away_score)

InitWith(items, events, lineups) ==
    /\ store = items
    /\ events_store = events
    /\ lineups_store = lineups
    /\ matches = <<>>
    /\ match_events = <<>>
    /\ idx = 0
    /\ winning_teams = <<>>
    /\ out = <<>>
    /\ pc = "select"
    /\ error = ""

\* one match; events of every period, in every order, none of them a shot
PassEvents == {Event(p, "Pass", "", "Real", 1) : p \in Periods}

InitPeriods ==
    \E hs \in Scores, as \in Scores, evs \in SeqsUpTo(PassEvents, MaxEvents) :
        InitWith(<<Final2008(hs, as)>>,
                 [id \in {1} |-> evs],
                 [id \in {1} |-> SquadLineups("Real", "Milan", 1)])

\* one match; shots of the last period of extra time and of the shootout,
\* by the home team, the away team or a team name that is neither
Kicks ==
    {Event(k[1], k[2], k[3], k[4], 1) :
        k \in {<<5, "Shot", "Goal", "Real">>, <<5, "Shot", "Goal", "Milan">>,
               <<5, "Shot", "Goal", "Porto">>, <<5, "Shot", "Saved", "Real">>,
               <<5, "Pass", "", "Milan">>,
               <<4, "Shot", "Goal", "Real">>, <<4, "Shot", "Goal", "Milan">>,
               <<4, "Shot", "Goal", "Porto">>}}

InitShootout ==
    \E hs \in Scores, as \in Scores, evs \in SeqsUpTo(Kicks, MaxEvents) :
        InitWith(<<Final2008(hs, as)>>,
                 [id \in {1} |-> evs],
                 [id \in {1} |-> SquadLineups("Real", "Milan", 1)])

\* one match; goals by players 1 and 2 of either team; the home lineup
\* lists each of them or not, with a nickname, an empty one or none
Goals == {Event(1, "Shot", "Goal", t, id) : t \in {"Real", "Milan"},
                                            id \in {1, 2}}

EntryChoices(id) ==
    {<<>>} \cup {<<LineupEntry(id, n)>> : n \in {NoNickname, EmptyName, Nick(id)}}

InitLineups ==
    \E evs \in SeqsUpTo(Goals, MaxEvents),
       e1 \in EntryChoices(1), e2 \in EntryChoices(2) :
        InitWith(<<Final2008(1, 0)>>,
                 [id \in {1} |-> evs],
                 [id \in {1} |->
                     <<Lineup("Real", e1 \o e2),
                       Lineup("Milan", <<LineupEntry(2, Nick(2))>>)>>])

\* several matches: competition and season, the two sides, the outcome
Pairings ==
    {<<HomeTeam("Real", "Spain"), AwayTeam("Milan", "Italy")>>,
     <<HomeTeam("Milan", "Italy"), AwayTeam("Barca", "Spain")>>,
     <<HomeTeam("Barca", "Spain"), AwayTeam("Real", "Spain")>>}

Editions ==
    {<<"Champions League", 2007>>, <<"Champions League", 2008>>,
     <<"Champions League", 2009>>, <<"La Liga", 2009>>}

Outcomes == {"home", "shootout", "draw"}

MatchChoices == Editions \X Pairings \X Outcomes

MatchOf(id, c) ==
    Match(id, c[1][1], c[1][2], c[2][1], c[2][2],
          IF c[3] = "home" THEN 1 ELSE 0, 0)

\* a home win 1-0, a goalless match won by the away side in the shootout,
\* or a goalless match that ends after regulation time
EventsOf(c) ==
    LET home == c[2][1].home_team_name
        away == c[2][2].away_team_name
    IN CASE c[3] = "home" ->
              <<Event(1, "Shot", "Goal", home, 1), Event(2, "Pass", "", away, 2)>>
         [] c[3] = "shootout" ->
              <<Event(4, "Pass", "", home, 1), Event(5, "Shot", "Goal", away, 2),
                Event(5, "Shot", "Saved", home, 1)>>
         [] OTHER ->
              <<Event(2, "Pass", "", home, 1)>>

InitSeasons ==
    \E cs \in SeqsUpTo(MatchChoices, MaxMatches) :
        InitWith([i \in 1..Len(cs) |-> MatchOf(i, cs[i])],
                 [id \in 1..Len(cs) |-> EventsOf(cs[id])],
                 [id \in 1..Len(cs) |->
                     SquadLineups(cs[id][2][1].home_team_name,
                                  cs[id][2][2].away_team_name, 2)])

\* one match in which NumScorers players score once or twice each, the
\* events listed from the last player to the first, and a shootout goal
ScorerEvents(count) ==
    chain([k \in 1..NumScorers |->
              [j \in 1..count[NumScorers + 1 - k] |->
                  Event(1, "Shot", "Goal", "Real", NumScorers + 1 - k)]])
    \o <<Event(5, "Shot", "Goal", "Real", 1)>>

InitScorers ==
    \E count \in [1..NumScorers -> 1..2] :
        InitWith(<<Final2008(1, 0)>>,
                 [id \in {1} |-> ScorerEvents(count)],
                 [id \in {1} |-> SquadLineups("Real", "Milan", NumScorers)])

Init ==
    \/ InitPeriods
    \/ InitShootout
    \/ InitLineups
    \/ InitSeasons
    \/ InitScorers

Spec == Init /\ [][Next]_vars

(***************************************************************************)
(* report_ucl as one function of the match files: what it has printed     *)
(* when it ends, normally or by an exception.                              *)
(***************************************************************************)

\* lines 200-203 for one match
resolve_match(m) ==
    LET evs == events_store[m.match_id]
        r == get_result_type(evs)
    IN IF r.raised # "" THEN Raise(r.raised)
       ELSE
         LET m1 == [result_type |-> r.value] @@ m
             m2 == [goals |-> get_goal_events(evs)] @@ m1
             m3 == populate_penalty_scores(m2, evs)
             n == populate_player_nicknames(m.match_id, m3.goals)
         IN IF n.raised # "" THEN Raise(n.raised)
            ELSE Return([goals |-> n.value] @@ m3)

report_ucl(items) ==
    LET ms == select_matches(items)
    IN IF ms = <<>> THEN <<>>
       ELSE
         LET countries == <<Section("countries", country_report(ms))>>
             res == [i \in 1..Len(ms) |-> resolve_match(ms[i])]
         IN IF \E i \in 1..Len(ms) : res[i].raised # "" THEN countries
            ELSE
              LET resolved == [i \in 1..Len(ms) |-> res[i].value]
                  w == wins_report([i \in 1..Len(ms) |->
                                       get_winning_team(resolved[i])])
              IN IF w.raised # "" THEN countries
                 ELSE countries \o <<Section("wins", w.value),
                                     Section("scorers", top_scorers(resolved))>>

(***************************************************************************)
(* Properties.                                                             *)
(***************************************************************************)

Range(s) == {s[k] : k \in 1..Len(s)}

Terminated == pc = "done" \/ error # ""

\* the run has evaluated line 207
WinnersKnown == pc \in {"wins", "scorers", "done"}

EventsOfMatch(i) == events_store[matches[i].match_id]

IsScoringShot(e) == e.type.name = "Shot" /\ e.shot.outcome.name = "Goal"

\* number of shootout (period 5) scoring shots of match i by the team named
ShootoutGoals(i, team_name) ==
    Cardinality({k \in 1..Len(EventsOfMatch(i)) :
        /\ EventsOfMatch(i)[k].period = 5
        /\ IsScoringShot(EventsOfMatch(i)[k])
        /\ EventsOfMatch(i)[k].team.name = team_name})

\* what the run has printed is what report_ucl yields on the files
RunIsReport == Terminated => out = report_ucl(store)

\* C1: a match whose home_score and away_score differ is won by the side
\* with the higher score, whatever its events and penalty scores are.
C1_WinnerByScore ==
    WinnersKnown =>
        \A i \in 1..Len(matches) :
            /\ matches[i].home_score > matches[i].away_score
                   => winning_teams[i] = matches[i].home_team
            /\ matches[i].home_score < matches[i].away_score
                   => winning_teams[i] = matches[i].away_team

\* a home win by score in a match whose penalty scores favour the away side
C1_Witness ==
    /\ WinnersKnown
    /\ \E i \in 1..Len(matches) :
          /\ matches[i].home_score > matches[i].away_score
          /\ matches[i].home_penalty_score < matches[i].away_penalty_score
          /\ winning_teams[i] = matches[i].home_team

\* C2: a match with level scores and at least one period-5 event is won by
\* the team with strictly more period-5 scoring shots attributed to it by
\* team name; with equal numbers the result is None.
C2_ShootoutWinner ==
    WinnersKnown =>
        \A i \in 1..Len(matches) :
            (/\ matches[i].home_score = matches[i].away_score
             /\ \E k \in 1..Len(EventsOfMatch(i)) :
                    EventsOfMatch(i)[k].period = 5)
            => LET h == ShootoutGoals(i, matches[i].home_team.home_team_name)
                   a == ShootoutGoals(i, matches[i].away_team.away_team_name)
               IN winning_teams[i] =
                      IF h > a THEN matches[i].home_team
                      ELSE IF a > h THEN matches[i].away_team
                      ELSE None

\* C3: the result type of a non-empty event sequence is decided by its
\* maximum period alone: FULL_TIME up to 2, EXTRA_TIME for 3 and 4,
\* PENALTY_SHOOTOUT for 5.
C3_ResultByMaxPeriod ==
    \A i \in 1..Len(matches) :
        "result_type" \in DOMAIN matches[i] =>
            LET periods == {EventsOfMatch(i)[k].period :
                               k \in 1..Len(EventsOfMatch(i))}
                top == CHOOSE p \in periods : \A q \in periods : q <= p
            IN /\ top <= 2 => matches[i].result_type = "FULL_TIME"
               /\ top \in {3, 4} => matches[i].result_type = "EXTRA_TIME"
               /\ top = 5 => matches[i].result_type = "PENALTY_SHOOTOUT"

\* a shootout classified from a sequence that starts with its period-5
\* event and goes on with two events of one earlier period
C3_Witness ==
    \E i \in 1..Len(matches) :
        /\ "result_type" \in DOMAIN matches[i]
        /\ matches[i].result_type = "PENALTY_SHOOTOUT"
        /\ Len(EventsOfMatch(i)) = 3
        /\ EventsOfMatch(i)[1].period = 5
        /\ EventsOfMatch(i)[2].period = 3
        /\ EventsOfMatch(i)[3].period = 3

\* C4: home_penalty_score is the number of period-5 scoring shots whose
\* team name is the home team's, away_penalty_score the number of those
\* whose team name is the away team's.
C4_PenaltyScores ==
    \A i \in 1..Len(matches) :
        "home_penalty_score" \in DOMAIN matches[i] =>
            /\ matches[i].home_penalty_score =
                   ShootoutGoals(i, matches[i].home_team.home_team_name)
            /\ matches[i].away_penalty_score =
                   ShootoutGoals(i, matches[i].away_team.away_team_name)

\* the goals of all matches, as (match, position) pairs
AllGoals ==
    UNION {{<<i, k>> : k \in 1..Len(matches[i].goals)} :
              i \in {j \in 1..Len(matches) : "goals" \in DOMAIN matches[j]}}

GoalsBy(nickname) ==
    Cardinality({g \in AllGoals :
        matches[g[1]].goals[g[2]].player.nickname = nickname})

Scorers == {matches[g[1]].goals[g[2]].player.nickname : g \in AllGoals}

\* C5: the top-scorer report counts, per nickname, the scoring shots of
\* periods 1-4 of all matches and lists at most 10 (nickname, count) rows,
\* by descending count and, for equal counts, ascending nickname; no
\* nickname left out ranks before one that is listed.
C5_TopScorers ==
    Printed("scorers") =>
        LET rows == RowsOf("scorers")
            listed == {rows[r][1] : r \in 1..Len(rows)}
            before(a, b) == a[2] > b[2] \/ (a[2] = b[2] /\ a[1] < b[1])
        IN /\ Len(rows) <= 10
           /\ \A i \in 1..Len(matches) :
                  /\ Len(matches[i].goals) =
                         Cardinality({k \in 1..Len(EventsOfMatch(i)) :
                             /\ EventsOfMatch(i)[k].period \in 1..4
                             /\ IsScoringShot(EventsOfMatch(i)[k])})
                  /\ \A k \in 1..Len(matches[i].goals) :
                         /\ matches[i].goals[k].period \in 1..4
                         /\ IsScoringShot(matches[i].goals[k])
           /\ listed \subseteq Scorers
           /\ \A r \in 1..Len(rows) : rows[r][2] = GoalsBy(rows[r][1])
           /\ \A r \in 1..(Len(rows) - 1) : before(rows[r], rows[r + 1])
           /\ \A n \in Scorers \ listed :
                  /\ Len(rows) = 10
                  /\ \A r \in 1..Len(rows) : before(rows[r], <<n, GoalsBy(n)>>)

\* ten rows with a tie among them, and a scorer left out who has as many
\* goals as the last one listed, next to a shootout goal that is not counted
C5_Witness ==
    /\ Printed("scorers")
    /\ LET rows == RowsOf("scorers")
       IN /\ Len(rows) = 10
          /\ rows[1][2] = 2 /\ rows[2][2] = 2
          /\ \E n \in Scorers : /\ \A r \in 1..10 : rows[r][1] # n
                                /\ GoalsBy(n) = rows[10][2]
    /\ \E i \in 1..Len(matches) : \E k \in 1..Len(EventsOfMatch(i)) :
          /\ EventsOfMatch(i)[k].period = 5
          /\ IsScoringShot(EventsOfMatch(i)[k])

Bijections(n) ==
    {f \in [1..n -> 1..n] : \A a, b \in 1..n : f[a] = f[b] => a = b}

Reorderings(s) ==
    {[i \in 1..Len(s) |-> s[f[i]]] : f \in Bijections(Len(s))}

\* the entries of a printed section without their order; the top-scorer
\* list is kept as the list it is
Entries(section) ==
    IF section.title = "scorers" THEN <<"list", section.rows>>
    ELSE IF section.title = "wins"
    THEN <<"set", {[country |-> row.country, wins |-> row.wins,
                    teams |-> Range(row.teams)] : row \in Range(section.rows)}>>
    ELSE <<"set", Range(section.rows)>>

SameEntries(o1, o2) ==
    /\ Len(o1) = Len(o2)
    /\ \A k \in 1..Len(o1) :
          /\ o1[k].title = o2[k].title
          /\ Entries(o1[k]) = Entries(o2[k])

SeasonsDiffer ==
    LET ms == select_matches(store)
    IN \A a, b \in 1..Len(ms) :
          a # b => ms[a].season.season_name # ms[b].season.season_name

LineupOf(i, team_name) ==
    LET lineups == lineups_store[matches[i].match_id]
    IN (CHOOSE l \in Range(lineups) : l.team_name = team_name).lineup

HasLineup(i, team_name) ==
    \E l \in Range(lineups_store[matches[i].match_id]) :
        l.team_name = team_name

\* C7: every scoring event's player gets the nickname of the lineup entry
\* with his id in the scoring team's lineup, or his full name when that
\* nickname is absent: null or the empty string.
C7_NicknameOrFullName ==
    \A g \in AllGoals :
        LET e == matches[g[1]].goals[g[2]]
        IN "nickname" \in DOMAIN e.player =>
             LET entry == CHOOSE p \in Range(LineupOf(g[1], e.team.name)) :
                              p.player_id = e.player.id
                 absent == entry.player_nickname \in {NoNickname, EmptyName}
             IN e.player.nickname =
                    IF absent THEN e.player.name ELSE entry.player_nickname

\* goal g of the list is by a player whom his team's lineup does not list
Unlisted(g) ==
    LET e == matches[g[1]].goals[g[2]]
    IN /\ HasLineup(g[1], e.team.name)
       /\ \A p \in Range(LineupOf(g[1], e.team.name)) :
              p.player_id # e.player.id

\* C8: a scoring event whose player id is not in the scoring team's lineup
\* makes nickname resolution raise; the run ends in that match, the event
\* gets no nickname and neither the wins nor the top-scorer report is made.
C8_UnlistedScorerAborts ==
    \A g \in AllGoals :
        Unlisted(g) =>
            /\ "nickname" \notin DOMAIN matches[g[1]].goals[g[2]].player
            /\ idx = g[1]
            /\ pc \in {"penalties", "nicknames"}
            /\ error \in {"", "IndexError", "KeyError"}
            /\ (\A h \in AllGoals : h[1] = g[1] /\ h[2] < g[2]
                    => HasLineup(h[1], matches[h[1]].goals[h[2]].team.name))
                 => error \in {"", "IndexError"}
            /\ ~Printed("wins") /\ ~Printed("scorers")

\* the resolution has raised on the second goal of a match, after it
\* attached a nickname to the first
C8_Witness ==
    /\ pc = "nicknames" /\ error = "IndexError"
    /\ Len(matches[idx].goals) >= 2
    /\ "nickname" \in DOMAIN matches[idx].goals[1].player
    /\ Unlisted(<<idx, 2>>)
    /\ "nickname" \notin DOMAIN matches[idx].goals[2].player

\* C9: a match with no events makes the classifier raise before any
\* derived field is written, and the run makes no wins or top-scorer report.
C9_EmptyEventsAbort ==
    \A i \in 1..Len(matches) :
        EventsOfMatch(i) = <<>> =>
            /\ DOMAIN matches[i] \cap
                   {"result_type", "goals", "home_penalty_score",
                    "away_penalty_score"} = {}
            /\ winning_teams = <<>>
            /\ ~Printed("wins") /\ ~Printed("scorers")
            /\ pc \in {"load_events", "result_type", "goals", "penalties",
                       "nicknames"}
            /\ idx <= i
            /\ idx = i => pc = "result_type" /\ error \in {"", "ValueError"}

\* the classifier has raised on a match without events
C9_Witness ==
    /\ pc = "result_type" /\ error = "ValueError"
    /\ EventsOfMatch(idx) = <<>>
    /\ DOMAIN matches[idx] = DOMAIN store[1]

\* number of wins the report gives the team named, of the country named
WinsPrinted(country, team_name) ==
    LET rows == {row \in Range(RowsOf("wins")) : row.country = country}
        pairs == UNION {{t \in Range(row.teams) : t[1] = team_name} :
                           row \in rows}
    IN IF pairs = {} THEN 0 ELSE (CHOOSE t \in pairs : TRUE)[2]

RECURSIVE SumWins(_)
SumWins(rows) ==
    IF rows = <<>> THEN 0 ELSE Head(rows).wins + SumWins(Tail(rows))

\* C10: the wins aggregation completes for every resolved match list, also
\* one with a drawn match; a drawn match counts for nobody, every other
\* match for its winner's country and team name, so that the counters add
\* up to the number of matches with a winner.
C10_WinsComplete ==
    /\ pc = "wins" => error = ""
    /\ Printed("wins") =>
          LET won == {i \in 1..Len(matches) : winning_teams[i] # None}
          IN /\ SumWins(RowsOf("wins")) = Cardinality(won)
             /\ \A i \in won :
                   WinsPrinted(winning_teams[i].country.name,
                               get_team_name(winning_teams[i])) =
                   Cardinality({j \in won :
                       /\ winning_teams[j].country.name =
                              winning_teams[i].country.name
                       /\ get_team_name(winning_teams[j]) =
                              get_team_name(winning_teams[i])})

====
